---- MODULE Spec2Model ----
(***************************************************************************)
(* Model of the Charm client (client/client.go) and of the info UI model   *)
(* (ui/info/info.go).                                                      *)
(*                                                                         *)
(* Strings whose letters matter (key types, file names, socket addresses)  *)
(* are sequences of one-character strings, so that strings.ToLower,        *)
(* strings.TrimSpace and fmt.Sprintf("charm_%s", ...) are computed.        *)
(* A path is a record [dir, base]: filepath.Join(dir, name) builds it and  *)
(* filepath.Base reads its last element.                                   *)
(***************************************************************************)
EXTENDS Naturals, Integers, Sequences, FiniteSets, TLC

VARIABLES
    fs,          \* the file system: the set of paths that exist
    unparseable, \* the paths whose content ssh.ParsePrivateKey rejects
    sshAuthSock, \* the environment variable SSH_AUTH_SOCK
    cfg,         \* the Config handed to the last NewClient call
    cc,          \* the *Client the last NewClient call returned (ok = FALSE: nil)
    err,         \* the error the last NewClient call returned ("" is nil)
    run,         \* what the last NewClient call did (globs, keygen calls, dials)
    pc,          \* per caller: where its current operation stands
    op,          \* per caller: the operation it called last
    conn,        \* per caller: the connection its operation dialed (0: none)
    sess,        \* per caller: the session its operation opened (0: none)
    res,         \* per caller: what its last operation returned
    conns,       \* the SSH connections to the host that are open
    sessions,    \* the SSH sessions, by channel
    calls,       \* the number of operations called so far
    tries,       \* per caller: the dials, sessions and commands of its operation
    nameRet,     \* SetName: the name it is called with and what the last call returned
    account,     \* the remote service: the key texts linked to the account
    book,        \* the last key operation and the keys linked and unlinked by it
    model,       \* the Model of the info UI
    msg          \* the last message handed to Update

newVars == <<fs, unparseable, sshAuthSock, cfg, cc, err, run>>
opVars  == <<pc, op, conn, sess, res, conns, sessions, calls, tries>>
auxVars == <<nameRet, account, book, model, msg>>
vars    == <<newVars, opVars, auxVars>>

-----------------------------------------------------------------------------
(* Strings *)

Upper == <<"A","B","C","D","E","F","G","H","I","J","K","L","M",
           "N","O","P","Q","R","S","T","U","V","W","X","Y","Z">>
Lower == <<"a","b","c","d","e","f","g","h","i","j","k","l","m",
           "n","o","p","q","r","s","t","u","v","w","x","y","z">>

ToLowerChar(c) ==
    IF \E i \in 1..Len(Upper) : Upper[i] = c
    THEN Lower[CHOOSE i \in 1..Len(Upper) : Upper[i] = c]
    ELSE c

\* strings.ToLower
ToLower(s) == [i \in 1..Len(s) |-> ToLowerChar(s[i])]

IsSpace(c) == c \in {" ", "\t", "\n", "\r"}

RECURSIVE TrimLeft(_)
TrimLeft(s) == IF s # <<>> /\ IsSpace(Head(s)) THEN TrimLeft(Tail(s)) ELSE s

RECURSIVE TrimRight(_)
TrimRight(s) ==
    IF s # <<>> /\ IsSpace(s[Len(s)]) THEN TrimRight(SubSeq(s, 1, Len(s) - 1)) ELSE s

\* strings.TrimSpace
TrimSpace(s) == TrimRight(TrimLeft(s))

HasPrefix(s, p) == Len(s) >= Len(p) /\ SubSeq(s, 1, Len(p)) = p

ed25519 == <<"e","d","2","5","5","1","9">>
rsa     == <<"r","s","a">>
ecdsa   == <<"e","c","d","s","a">>
ED25519 == <<"E","D","2","5","5","1","9">>
dsa     == <<"d","s","a">>

\* The key type strings a Config is given: the three canonical names, one that
\* differs from a canonical name in letter case only, one that is unrecognised.
KeyTypes == {ed25519, rsa, ED25519, dsa}

CharmPrefix == <<"c","h","a","r","m","_">>
PubSuffix   == <<".","p","u","b">>

\* fmt.Sprintf("charm_%s", keyType)
KeyFileName(keyType) == CharmPrefix \o keyType

-----------------------------------------------------------------------------
(* Paths and the file system *)

Host    == "cloud.charm.sh"
HomeDir == <<"home">>
XdgDir  == <<"xdg", "charm", Host>>

Join(dir, name) == [dir |-> dir, base |-> name]
Base(p) == p.base

EmptyPath == [dir |-> <<>>, base |-> <<>>]

\* The values of Config.DataDir: unset, or an explicit directory.
DataDirs == {<<>>, <<"data">>}

\* The values of Config.IdentityKey: unset, a key file under the home directory
\* written with a leading ~, and a path at which no file exists.
IdentityGood    == Join(<<"~">>, <<"k">>)
IdentityMissing == Join(<<"nokey">>, <<"k">>)
IdentityKeys == {EmptyPath, IdentityGood, IdentityMissing}

\* The base names a data directory can hold, in the byte order filepath.Glob
\* returns them in (upper case sorts before lower case).
NameOrder ==
    << KeyFileName(ED25519), KeyFileName(ED25519) \o PubSuffix,
       KeyFileName(dsa),
       KeyFileName(ecdsa), KeyFileName(ecdsa) \o PubSuffix,
       KeyFileName(ed25519), KeyFileName(ed25519) \o PubSuffix,
       KeyFileName(rsa), KeyFileName(rsa) \o PubSuffix >>

\* Files that may exist before the first NewClient call.
PreExisting ==
    { Join(<<"data", Host>>, KeyFileName(ed25519)),
      Join(<<"data", Host>>, KeyFileName(rsa)),
      Join(XdgDir, KeyFileName(ed25519)) }

\* Pre-existing key files whose content may be damaged.
Damageable == { Join(<<"data", Host>>, KeyFileName(rsa)) }

HomeKey == Join(HomeDir, <<"k">>)

\* Unix socket addresses: one with an agent listening, one without.
SockLive == <<"/","a">>
SockDead == <<"/","x">>
Listening == {SockLive}

-----------------------------------------------------------------------------
(* Config *)

\* Config.KeygenType: the key type handed to the key generator.
KeygenType(c) ==
    LET kt == ToLower(c.KeyType) IN
    CASE kt = ed25519 -> ed25519
      [] kt = rsa     -> rsa
      [] kt = ecdsa   -> ecdsa
      [] OTHER        -> ed25519

\* Client.DataPath: the explicit directory joined with the host, else the
\* platform's user data directory, whose lookup can fail (xdgOk = FALSE).
DataPath(c, xdgOk) ==
    IF c.DataDir # <<>>
    THEN [path |-> c.DataDir \o <<c.Host>>, err |-> ""]
    ELSE IF xdgOk THEN [path |-> XdgDir, err |-> ""]
         ELSE [path |-> <<>>, err |-> "datapath"]

\* filepath.Glob(filepath.Join(keyPath, "charm_*")): the existing files of the
\* directory whose base name starts with charm_, in sorted order.
Glob(keyPath, files) ==
    LET all == [i \in 1..Len(NameOrder) |-> Join(keyPath, NameOrder[i])] IN
    SelectSeq(all, LAMBDA p : p \in files /\ HasPrefix(Base(p), CharmPrefix))

\* Client.findAuthKeys: the globbed files whose base name is charm_<keyType>.
findAuthKeys(c, keyType, files, xdgOk) ==
    LET dp == DataPath(c, xdgOk) IN
    IF dp.err # "" THEN [keys |-> <<>>, err |-> dp.err, globs |-> 0]
    ELSE LET m == Glob(dp.path, files) IN
         IF Len(m) = 0 THEN [keys |-> <<>>, err |-> "", globs |-> 1]
         ELSE [keys  |-> SelectSeq(m, LAMBDA f : Base(f) = KeyFileName(keyType)),
               err   |-> "",
               globs |-> 1]

\* keygen.NewWithWrite(filepath.Join(dp, "charm"), "", keyType): the pair
\* charm_<keyType>, charm_<keyType>.pub is written unless the private key file
\* exists already; writeOk = FALSE is a failure to write.
NewWithWrite(dp, keyType, files, writeOk) ==
    LET priv == Join(dp, KeyFileName(keyType))
        pub  == Join(dp, KeyFileName(keyType) \o PubSuffix)
    IN  IF priv \in files THEN [err |-> "", fs |-> files, wrote |-> {}]
        ELSE IF ~writeOk THEN [err |-> "keygen", fs |-> files, wrote |-> {}]
        ELSE [err |-> "", fs |-> files \cup {priv, pub}, wrote |-> {priv, pub}]

\* A ResolveKeys that globs the data directory before it looks at IdentityKey.
ResolveKeys_DiscoverFirst(c, files, xdgOk, writeOk) ==
    LET f1 == findAuthKeys(c, c.KeyType, files, xdgOk) IN
    [keys    |-> IF c.IdentityKey # EmptyPath THEN <<c.IdentityKey>> ELSE f1.keys,
     err     |-> f1.err,
     fs      |-> files,
     globs   |-> f1.globs,
     keygens |-> 0,
     wrote   |-> {},
     first   |-> f1.keys]

\* NewClient, lines 76-99: the on-disk key paths.
ResolveKeys(c, files, xdgOk, writeOk) ==
    LET none == [keys |-> <<>>, err |-> "", fs |-> files, globs |-> 0,
                 keygens |-> 0, wrote |-> {}, first |-> <<>>]
    IN
    IF c.IdentityKey # EmptyPath
    THEN [none EXCEPT !.keys = <<c.IdentityKey>>]
    ELSE
      LET f1 == findAuthKeys(c, c.KeyType, files, xdgOk) IN
      IF f1.err # "" THEN [none EXCEPT !.err = f1.err, !.globs = f1.globs]
      ELSE IF Len(f1.keys) # 0
           THEN [none EXCEPT !.keys = f1.keys, !.globs = f1.globs,
                             !.first = f1.keys]
      ELSE
        LET dp == DataPath(c, xdgOk) IN
        IF dp.err # "" THEN [none EXCEPT !.err = dp.err, !.globs = f1.globs]
        ELSE
          LET g == NewWithWrite(dp.path, KeygenType(c), files, writeOk) IN
          IF g.err # ""
          THEN [none EXCEPT !.err = g.err, !.globs = f1.globs, !.keygens = 1]
          ELSE
            LET f2 == findAuthKeys(c, c.KeyType, g.fs, xdgOk) IN
            [keys    |-> f2.keys,
             err     |-> f2.err,
             fs      |-> g.fs,
             globs   |-> f1.globs + f2.globs,
             keygens |-> 1,
             wrote   |-> g.wrote,
             first   |-> f1.keys]

\* getLocalAgentConn: the socket is Config.SSHAgentAddr unless that is blank,
\* then $SSH_AUTH_SOCK; the dial succeeds when an agent listens there.
getLocalAgentConn(c, envSock) ==
    LET socket == IF TrimSpace(c.SSHAgentAddr) = <<>> THEN envSock
                  ELSE c.SSHAgentAddr
    IN  IF socket = <<>> THEN [conn |-> <<>>, err |-> "no SSH_AUTH_SOCK set", dials |-> 0]
        ELSE IF socket \notin Listening
             THEN [conn |-> <<>>, err |-> "failed to connect to SSH_AUTH_SOCK", dials |-> 1]
             ELSE [conn |-> socket, err |-> "", dials |-> 1]

\* homedir.Expand: a leading ~ is the home directory.
Expand(kp) == IF kp.dir # <<>> /\ Head(kp.dir) = "~"
              THEN [kp EXCEPT !.dir = HomeDir \o Tail(kp.dir)]
              ELSE kp

AgentMethod(socket) == [kind |-> "agent", key |-> EmptyPath, sock |-> socket]
KeyMethod(path)   == [kind |-> "publickey", key |-> path, sock |-> <<>>]

\* publicKeyAuthMethod: read the file and parse it as a private key.
publicKeyAuthMethod(kp, files, bad) ==
    LET keyPath == Expand(kp) IN
    IF keyPath \notin files THEN [m |-> KeyMethod(kp), err |-> "read"]
    ELSE IF keyPath \in bad THEN [m |-> KeyMethod(kp), err |-> "parse"]
    ELSE [m |-> KeyMethod(kp), err |-> ""]

\* A KeyMethods that puts each key method in front of the list.
RECURSIVE KeyMethods_Prepend(_, _, _, _)
KeyMethods_Prepend(keys, pkam, files, bad) ==
    IF keys = <<>> THEN [pkam |-> pkam, err |-> ""]
    ELSE LET r == publicKeyAuthMethod(Head(keys), files, bad) IN
         IF r.err # "" THEN [pkam |-> pkam, err |-> r.err]
         ELSE KeyMethods_Prepend(Tail(keys), <<r.m>> \o pkam, files, bad)

\* NewClient, lines 111-117: one method per key path, in order, stopping at the
\* first path that cannot be read or parsed.
RECURSIVE KeyMethods(_, _, _, _)
KeyMethods(keys, pkam, files, bad) ==
    IF keys = <<>> THEN [pkam |-> pkam, err |-> ""]
    ELSE LET r == publicKeyAuthMethod(Head(keys), files, bad) IN
         IF r.err # "" THEN [pkam |-> pkam, err |-> r.err]
         ELSE KeyMethods(Tail(keys), Append(pkam, r.m), files, bad)

NoClient == [ok |-> FALSE, Auth |-> <<>>, closer |-> FALSE]

\* A Finish without the check of line 119.
Finish_NoCheck(c, pkam, closer) ==
    [client |-> [ok |-> TRUE, Auth |-> pkam, closer |-> closer], err |-> ""]

\* NewClient, lines 119-128: an empty method list is ErrMissingSSHAuth.
Finish(c, pkam, closer) ==
    IF Len(pkam) = 0
    THEN [client |-> NoClient, err |-> "ErrMissingSSHAuth"]
    ELSE [client |-> [ok |-> TRUE, Auth |-> pkam, closer |-> closer], err |-> ""]

\* A BuildAuth that goes on with the on-disk keys when the agent cannot be
\* reached.
BuildAuth_Fallback(c, keys, files, bad, envSock) ==
    LET a     == IF c.UseSSHAgent THEN getLocalAgentConn(c, envSock)
                 ELSE [conn |-> <<>>, err |-> "", dials |-> 0]
        agent == c.UseSSHAgent /\ a.err = ""
        pkam0 == IF agent THEN <<AgentMethod(a.conn)>> ELSE <<>>
        km    == KeyMethods(keys, pkam0, files, bad)
        state == IF agent THEN "open" ELSE "none"
    IN  IF km.err # ""
        THEN [client |-> NoClient, err |-> km.err, agentDials |-> a.dials,
              agentConn |-> state, pkam |-> km.pkam, built |-> FALSE]
        ELSE LET f == Finish(c, km.pkam, agent) IN
             [client |-> f.client, err |-> f.err, agentDials |-> a.dials,
              agentConn |-> state, pkam |-> km.pkam, built |-> TRUE]

\* NewClient, lines 101-128: the authentication methods and the Client.
\* agentConn: "none", or "open" once the agent socket was dialed.
BuildAuth(c, keys, files, bad, envSock) ==
    LET a == IF c.UseSSHAgent THEN getLocalAgentConn(c, envSock)
             ELSE [conn |-> <<>>, err |-> "", dials |-> 0]
    IN
    IF a.err # ""
    THEN [client |-> NoClient, err |-> a.err, agentDials |-> a.dials,
          agentConn |-> "none", pkam |-> <<>>, built |-> FALSE]
    ELSE
      LET pkam0 == IF c.UseSSHAgent THEN <<AgentMethod(a.conn)>> ELSE <<>>
          km    == KeyMethods(keys, pkam0, files, bad)
          state == IF c.UseSSHAgent THEN "open" ELSE "none"
      IN  IF km.err # ""
          THEN [client |-> NoClient, err |-> km.err, agentDials |-> a.dials,
                agentConn |-> state, pkam |-> km.pkam, built |-> FALSE]
          ELSE LET f == Finish(c, km.pkam, c.UseSSHAgent) IN
               [client |-> f.client, err |-> f.err, agentDials |-> a.dials,
                agentConn |-> state, pkam |-> km.pkam, built |-> TRUE]

\* The record of one NewClient call: done (the call returned), first (the keys
\* the first discovery found), globs and keygens (calls of filepath.Glob and of
\* the key generator), wrote (the files written), keys (sshKeys at line 100),
\* pkam and built (the method list, and whether line 119 was reached),
\* agentDials, agentConn (the agent socket), sshDials (dials of the host),
\* closeRet (what Close returned on the Client of this call; "none": not called).
NoRun == [done |-> FALSE, first |-> <<>>, globs |-> 0, keygens |-> 0,
          wrote |-> {}, keys |-> <<>>, pkam |-> <<>>, built |-> FALSE,
          agentDials |-> 0, agentConn |-> "none", sshDials |-> 0,
          closeRet |-> "none"]

\* The values of Config.SSHAgentAddr: unset, blank, a socket an agent listens
\* on and one nobody listens on.
AgentAddrs == {<<>>, <<" ">>, SockLive, SockDead}

Configs ==
    [Host : {Host}, KeyType : KeyTypes, DataDir : DataDirs,
     IdentityKey : IdentityKeys, UseSSHAgent : BOOLEAN,
     SSHAgentAddr : AgentAddrs]

NoConfig == [Host |-> Host, KeyType |-> ed25519, DataDir |-> <<>>,
             IdentityKey |-> EmptyPath, UseSSHAgent |-> FALSE, SSHAgentAddr |-> <<>>]

NewInit ==
    /\ \E pre \in SUBSET PreExisting :
         /\ fs = pre \cup {HomeKey}
         /\ unparseable \in SUBSET (pre \cap Damageable)
    /\ sshAuthSock \in {<<>>, SockLive, SockDead}
    /\ \E kt \in KeyTypes, dd \in DataDirs :
         cfg = [NoConfig EXCEPT !.KeyType = kt, !.DataDir = dd]
    /\ cc = NoClient
    /\ err = ""
    /\ run = NoRun

\* NewClient(c) called with the files, the damaged files and $SSH_AUTH_SOCK
\* given: what it returns, the files it leaves and the record of the call.
AfterNewClient(c, files, bad, envSock, xdgOk, writeOk) ==
    LET k == ResolveKeys(c, files, xdgOk, writeOk) IN
    IF k.err # ""
    THEN [fs  |-> k.fs,
          cc  |-> NoClient,
          err |-> k.err,
          run |-> [NoRun EXCEPT !.done = TRUE, !.first = k.first,
                                !.globs = k.globs, !.keygens = k.keygens,
                                !.wrote = k.wrote]]
    ELSE LET b == BuildAuth(c, k.keys, k.fs, bad, envSock) IN
         [fs  |-> k.fs,
          cc  |-> b.client,
          err |-> b.err,
          run |-> [done |-> TRUE, first |-> k.first, globs |-> k.globs,
                   keygens |-> k.keygens, wrote |-> k.wrote,
                   keys |-> k.keys, pkam |-> b.pkam, built |-> b.built,
                   agentDials |-> b.agentDials, agentConn |-> b.agentConn,
                   sshDials |-> 0, closeRet |-> "none"]]

\* NewClient(cfg): the whole constructor.
NewClient(c, xdgOk, writeOk) ==
    \E r \in {AfterNewClient(c, fs, unparseable, sshAuthSock, xdgOk, writeOk)} :
        /\ cfg' = c
        /\ fs' = r.fs
        /\ cc' = r.cc
        /\ err' = r.err
        /\ run' = r.run
        /\ UNCHANGED <<unparseable, sshAuthSock>>
        /\ UNCHANGED <<opVars, auxVars>>

\* cc.Close(): nil when the Client has no closer, else what conn.Close of the
\* agent connection returns (an error when it is closed already).
Close ==
    /\ cc.ok
    /\ run' = IF ~cc.closer THEN [run EXCEPT !.closeRet = "nil"]
              ELSE IF run.agentConn = "open"
              THEN [run EXCEPT !.closeRet = "nil", !.agentConn = "closed"]
              ELSE [run EXCEPT !.closeRet = "use of closed network connection"]
    /\ UNCHANGED <<fs, unparseable, sshAuthSock, cfg, cc, err>>
    /\ UNCHANGED <<opVars, auxVars>>

\* The process keeps its key type and data directory (CHARM_KEY_TYPE,
\* CHARM_DATA_DIR); the identity key and the agent settings vary per call.
NewNext ==
    \/ \E id \in IdentityKeys, agent \in BOOLEAN, writeOk \in BOOLEAN :
       \E addr \in IF agent THEN AgentAddrs ELSE {<<>>} :
       \E xdgOk \in IF cfg.DataDir = <<>> THEN BOOLEAN ELSE {TRUE} :
           NewClient([cfg EXCEPT !.IdentityKey = id, !.UseSSHAgent = agent,
                                 !.SSHAgentAddr = addr], xdgOk, writeOk)
    \/ Close

-----------------------------------------------------------------------------
(* The SSH operations *)

\* The goroutines that call operations on the one Client.
Callers == {"g1", "g2"}

\* Operations called in one behaviour.
MaxCalls == 2

\* Bytes one remote command writes to its output.
MaxOut == 2

PublicKeys == { [type |-> "ssh-ed25519", blob |-> "AAAA"] }
NoKey == [type |-> "", blob |-> ""]

\* base64.StdEncoding.EncodeToString
Base64(blob) == <<"base64", blob>>

\* keyText: the key type, a space, the base64 of the marshalled key.
keyText(key) == <<key.type, " ">> \o Base64(key.blob)

Operations ==
    { [name |-> "ID", aud |-> <<>>, key |-> NoKey, text |-> <<>>],
      [name |-> "JWT", aud |-> <<"aud">>, key |-> NoKey, text |-> <<>>],
      [name |-> "AuthorizedKeys", aud |-> <<>>, key |-> NoKey, text |-> <<>>],
      [name |-> "AuthorizedKeysWithMetadata", aud |-> <<>>, key |-> NoKey,
       text |-> <<>>] }
    \cup { [name |-> "LinkKeyToUser", aud |-> <<>>, key |-> k, text |-> <<>>] :
             k \in PublicKeys }
    \cup { [name |-> "UnlinkAuthorizedKey", aud |-> <<>>, key |-> NoKey,
            text |-> keyText(k)] : k \in PublicKeys }

NoOp == [name |-> "", aud |-> <<>>, key |-> NoKey, text |-> <<>>]

\* strings.Join(words, " ")
RECURSIVE JoinSpace(_)
JoinSpace(words) ==
    IF Len(words) <= 1 THEN words
    ELSE <<Head(words), " ">> \o JoinSpace(Tail(words))

\* json.Marshal of a charm.PublicKey
Marshal(k) == <<"{\"key\":\"">> \o k.Key \o <<"\"}">>

\* json.NewEncoder(in).Encode: the document and a newline
Encode(k) == Marshal(k) \o <<"\n">>

\* Operations none of which writes to the input of its session.
UsesStdin_Never(o) == FALSE

\* LinkKeyToUser and UnlinkAuthorizedKey open s.StdinPipe().
UsesStdin(o) == o.name \in {"LinkKeyToUser", "UnlinkAuthorizedKey"}

\* A LinkKeyToUser that sends the text field of its argument.
Payload_Text(o) == [Key |-> o.text]

\* The charm.PublicKey that LinkKeyToUser and UnlinkAuthorizedKey build.
Payload(o) ==
    IF o.name = "LinkKeyToUser" THEN [Key |-> keyText(o.key)] ELSE [Key |-> o.text]

\* The remote command of each operation.
Command(o) ==
    CASE o.name = "ID" -> <<"id">>
      [] o.name = "JWT" -> JoinSpace(<<"jwt">> \o o.aud)
      [] o.name = "AuthorizedKeys" -> <<"keys">>
      [] o.name = "AuthorizedKeysWithMetadata" -> <<"api-keys">>
      [] o.name = "LinkKeyToUser" -> <<"api-add-key", " ">> \o Marshal(Payload(o))
      [] o.name = "UnlinkAuthorizedKey" -> <<"api-unlink", " ">> \o Marshal(Payload(o))

\* What an operation returns: val (the string, or the decoded keys), ptr (a
\* non-nil pointer is returned), err ("" is nil), text (the text the error
\* carries).
NoResult == [val |-> <<>>, ptr |-> FALSE, err |-> "", text |-> <<>>]
Failure(e) == [NoResult EXCEPT !.err = e]

\* ID, JWT, AuthorizedKeys after s.Output: the output as a string.
OutputString(b, e) ==
    IF e # "" THEN Failure(e) ELSE [NoResult EXCEPT !.val = b]

\* AuthorizedKeysWithMetadata after s.Output: json.Unmarshal into a Keys value
\* whose address is returned with the error of the decoding.
KeysWithMetadata(b, e, wellFormed) ==
    IF e # "" THEN Failure(e)
    ELSE IF wellFormed THEN [NoResult EXCEPT !.val = b, !.ptr = TRUE]
    ELSE [NoResult EXCEPT !.ptr = TRUE, !.err = "json"]

\* A LinkKeyToUser that ignores what the command wrote.
LinkResult_IgnoreOutput(b, e) ==
    IF e # "" THEN Failure(e) ELSE NoResult

\* LinkKeyToUser after s.Output.
LinkResult(b, e) ==
    IF e # "" THEN Failure(e)
    ELSE IF Len(b) # 0 THEN [NoResult EXCEPT !.err = "err: %s", !.text = b]
    ELSE NoResult

\* An UnlinkAuthorizedKey that reports the output as LinkKeyToUser does.
UnlinkResult_Generic(b, e) ==
    IF e # "" THEN Failure(e)
    ELSE IF Len(b) # 0 THEN [NoResult EXCEPT !.err = "err: %s", !.text = b]
    ELSE NoResult

\* UnlinkAuthorizedKey after s.Output.
UnlinkResult(b, e) ==
    IF e # "" THEN Failure(e)
    ELSE IF Len(b) # 0 THEN Failure("ErrCouldNotUnlinkKey")
    ELSE NoResult

Result(o, b, e, wellFormed) ==
    CASE o.name \in {"ID", "JWT", "AuthorizedKeys"} -> OutputString(b, e)
      [] o.name = "AuthorizedKeysWithMetadata" -> KeysWithMetadata(b, e, wellFormed)
      [] o.name = "LinkKeyToUser" -> LinkResult(b, e)
      [] o.name = "UnlinkAuthorizedKey" -> UnlinkResult(b, e)

\* A session: the connection it runs on, whether it is open, the command it
\* was asked to run, what was written to its input, what the remote command
\* will write (n bytes, then the exit status; wellFormed: the bytes are JSON)
\* and the output buffer s.Output collects.
NewSessionRec(c) ==
    [conn |-> c, open |-> TRUE, started |-> FALSE, cmd |-> <<>>, stdin |-> <<>>,
     n |-> 0, exit |-> "", wellFormed |-> FALSE, stdout |-> <<>>]

\* One byte of the output of a command: which command on which channel wrote
\* it, and its place in that output.
Byte(cmd, chan, i) == [cmd |-> cmd, chan |-> chan, i |-> i]

\* The error of s.Output: the command could not be started, or it exited with
\* a non-zero status (*ssh.ExitError).
OutputErr(s) ==
    CASE s.exit = "0" -> ""
      [] s.exit = "1" -> "exit"
      [] OTHER -> "start"

\* A deferred Close that never runs.
CloseSession_Missing(ss, s) == ss

\* defer s.Close()
CloseSession(ss, s) == [ss EXCEPT ![s].open = FALSE]

\* An sshSession that hands out a session that is already open.
SessionChannel_Reuse(c, ss) ==
    IF \E s \in DOMAIN ss : ss[s].open
    THEN CHOOSE s \in DOMAIN ss : ss[s].open
    ELSE c

\* c.NewSession(): the channel of the new session; every connection carries
\* the one session opened on it.
SessionChannel(c, ss) == c

\* The calls one operation has made: ssh.Dial, c.NewSession, s.Output.
NoTries == [dial |-> 0, open |-> 0, exec |-> 0]

\* An operation that tries c.NewSession again after it failed.
AfterFailure_Retry(stage) == IF stage = "session" THEN "session" ELSE "done"

\* Where an operation goes after a step failed: it returns the error.
AfterFailure(stage) == "done"

IdleInit ==
    /\ pc = [p \in Callers |-> "idle"]
    /\ op = [p \in Callers |-> NoOp]
    /\ conn = [p \in Callers |-> 0]
    /\ sess = [p \in Callers |-> 0]
    /\ res = [p \in Callers |-> NoResult]
    /\ conns = {}
    /\ sessions = <<>>
    /\ calls = 0
    /\ tries = [p \in Callers |-> NoTries]

\* The Client the operations run on: NewClient with the default key type, an
\* explicit data directory and no agent.
OpsConfig == [NoConfig EXCEPT !.DataDir = <<"data">>]

\* The sessions without the one the caller's previous operation left behind.
Forget(ss, p) ==
    [s \in DOMAIN ss \ {x \in {sess[p]} : x \in DOMAIN ss /\ ~ss[x].open} |-> ss[s]]

\* A caller calls an operation, whose first step is sshSession's ssh.Dial.
Call(p, o, ok) ==
    /\ cc.ok
    /\ pc[p] \in {"idle", "done"}
    /\ calls < MaxCalls
    /\ calls' = calls + 1
    /\ op' = [op EXCEPT ![p] = o]
    /\ sess' = [sess EXCEPT ![p] = 0]
    /\ sessions' = Forget(sessions, p)
    /\ tries' = [tries EXCEPT ![p] = [NoTries EXCEPT !.dial = 1]]
    /\ IF ok
       THEN /\ conns' = conns \cup {calls + 1}
            /\ conn' = [conn EXCEPT ![p] = calls + 1]
            /\ pc' = [pc EXCEPT ![p] = "session"]
            /\ res' = [res EXCEPT ![p] = NoResult]
       ELSE /\ conn' = [conn EXCEPT ![p] = 0]
            /\ pc' = [pc EXCEPT ![p] = AfterFailure("dial")]
            /\ res' = [res EXCEPT ![p] = Failure("dial")]
            /\ UNCHANGED conns
    /\ UNCHANGED <<newVars, auxVars>>

\* sshSession's c.NewSession(), and the defer s.Close() of the caller.
NewSession(p, ok) ==
    /\ pc[p] = "session"
    /\ IF ok
       THEN LET s == SessionChannel(conn[p], sessions) IN
            /\ sessions' = [x \in DOMAIN sessions \cup {s} |->
                              IF x = s THEN NewSessionRec(conn[p]) ELSE sessions[x]]
            /\ sess' = [sess EXCEPT ![p] = s]
            /\ pc' = [pc EXCEPT ![p] = IF UsesStdin(op[p]) THEN "stdin" ELSE "exec"]
            /\ UNCHANGED res
       ELSE /\ pc' = [pc EXCEPT ![p] = AfterFailure("session")]
            /\ res' = [res EXCEPT ![p] = Failure("session")]
            /\ UNCHANGED <<sess, sessions>>
    /\ tries' = [tries EXCEPT ![p].open = @ + 1]
    /\ UNCHANGED <<op, conn, conns, calls>>
    /\ UNCHANGED <<newVars, auxVars>>

\* LinkKeyToUser, UnlinkAuthorizedKey: s.StdinPipe() and the encoding of the
\* key to it; on a failure the operation returns and the session is closed.
Stdin(p, outcome) ==
    /\ pc[p] = "stdin"
    /\ IF outcome = "ok"
       THEN /\ sessions' = [sessions EXCEPT ![sess[p]].stdin = Encode(Payload(op[p]))]
            /\ pc' = [pc EXCEPT ![p] = "exec"]
            /\ UNCHANGED res
       ELSE /\ sessions' = CloseSession(sessions, sess[p])
            /\ pc' = [pc EXCEPT ![p] = AfterFailure("stdin")]
            /\ res' = [res EXCEPT ![p] = Failure(outcome)]
    /\ UNCHANGED <<op, conn, sess, conns, calls, tries>>
    /\ UNCHANGED <<newVars, auxVars>>

\* s.Output(command): the command is requested; the remote side decides what
\* it writes (n bytes, well formed JSON or not) and how it exits.
Exec(p, n, exit, wellFormed) ==
    /\ pc[p] = "exec"
    /\ exit = "start" => n = 0
    /\ sessions' = [sessions EXCEPT ![sess[p]].started = TRUE,
                                    ![sess[p]].cmd = Command(op[p]),
                                    ![sess[p]].n = n,
                                    ![sess[p]].exit = exit,
                                    ![sess[p]].wellFormed = wellFormed]
    /\ pc' = [pc EXCEPT ![p] = "wait"]
    /\ tries' = [tries EXCEPT ![p].exec = @ + 1]
    /\ UNCHANGED <<op, conn, sess, res, conns, calls>>
    /\ UNCHANGED <<newVars, auxVars>>

\* The remote command writes its next byte, which s.Output puts in the buffer
\* of the session of that channel.
RemoteWrite(s) ==
    /\ sessions[s].open
    /\ sessions[s].started
    /\ Len(sessions[s].stdout) < sessions[s].n
    /\ sessions' = [sessions EXCEPT ![s].stdout =
                      Append(@, Byte(sessions[s].cmd, s, Len(@) + 1))]
    /\ UNCHANGED <<pc, op, conn, sess, res, conns, calls, tries>>
    /\ UNCHANGED <<newVars, auxVars>>

\* s.Output returns when the command has exited; the operation interprets the
\* output, returns, and the deferred s.Close() runs.
Return(p) ==
    /\ pc[p] = "wait"
    /\ Len(sessions[sess[p]].stdout) = sessions[sess[p]].n
    /\ res' = [res EXCEPT ![p] =
                 Result(op[p], sessions[sess[p]].stdout, OutputErr(sessions[sess[p]]),
                        sessions[sess[p]].wellFormed)]
    /\ sessions' = CloseSession(sessions, sess[p])
    /\ pc' = [pc EXCEPT ![p] = "done"]
    /\ UNCHANGED <<op, conn, sess, conns, calls, tries>>
    /\ UNCHANGED <<newVars, auxVars>>

OpsNext ==
    \/ \E p \in Callers, o \in Operations, ok \in BOOLEAN : Call(p, o, ok)
    \/ \E p \in Callers, ok \in BOOLEAN : NewSession(p, ok)
    \/ \E p \in Callers, outcome \in {"ok", "stdinpipe", "encode"} : Stdin(p, outcome)
    \/ \E p \in Callers, n \in 0..MaxOut, exit \in {"0", "1", "start"} :
       \E wellFormed \in IF op[p].name = "AuthorizedKeysWithMetadata" /\ n > 0
                            /\ exit = "0"
                         THEN BOOLEAN ELSE {FALSE} :
           Exec(p, n, exit, wellFormed)
    \/ \E s \in DOMAIN sessions : RemoteWrite(s)
    \/ \E p \in Callers : Return(p)

-----------------------------------------------------------------------------
(* ValidateName and SetName *)

\* The repetition bounds of nameValidator, ^[a-zA-Z0-9]{1,50}$.
NameMin == 1
NameMax == 50

\* The longest run of letters a name under test starts with.
MaxNameLen == 51

Digits == <<"0","1","2","3","4","5","6","7","8","9">>

\* The character class [a-zA-Z0-9].
Class ==
    {Lower[i] : i \in 1..Len(Lower)} \cup {Upper[i] : i \in 1..Len(Upper)}
    \cup {Digits[i] : i \in 1..Len(Digits)}

\* The characters of the class that s holds from position i on, at most max:
\* what the repetition takes before it gives characters back.
RECURSIVE Run(_, _, _)
Run(s, i, max) ==
    IF max = 0 \/ i > Len(s) \/ s[i] \notin Class THEN 0
    ELSE 1 + Run(s, i + 1, max - 1)

\* A $ that also matches before a final newline.
AtEnd_BeforeNewline(s, i) ==
    \/ i = Len(s) + 1
    \/ i = Len(s) /\ s[i] = "\n"

\* $ without the m flag: position i is the end of the text.
AtEnd(s, i) == i = Len(s) + 1

\* nameValidator.MatchString: anchored at the start, some k in {1,50}
\* characters of the class, then the end of the text.
MatchString(s) ==
    \E k \in NameMin..Run(s, 1, NameMax) : AtEnd(s, k + 1)

ValidateName(name) == MatchString(name)

RECURSIVE Rep(_, _)
Rep(c, n) == IF n = 0 THEN <<>> ELSE <<c>> \o Rep(c, n - 1)

\* The names SetName is called with: a run of letters and an ending.
Endings == { <<>>, <<"\n">>, <<" ">>, <<"Z">>, <<"9">>, <<"_">>, <<"-", "b">>,
             <<" ", "b">> }
Names == { Rep("a", n) \o e : n \in 0..MaxNameLen, e \in Endings }

\* What the HTTP-JSON helper does with a request: it obtains a token with the
\* JWT operation (one SSH dial) and, given the token, sends one HTTP request;
\* the response body is decoded into the User.
AuthedJSONRequest(u, outcome) ==
    [dials |-> 1,
     requests |-> IF outcome = "jwt" THEN 0 ELSE 1,
     err |-> IF outcome = "ok" THEN "" ELSE outcome,
     body |-> u]

NoUser == [Name |-> <<>>]

\* A SetName that sends the request and validates the name afterwards.
SetNameResult_ValidateLast(name, outcome) ==
    LET r == AuthedJSONRequest([Name |-> name], outcome) IN
    IF ~ValidateName(name)
    THEN [user |-> NoUser, ptr |-> FALSE, err |-> "ErrNameInvalid",
          dials |-> r.dials, requests |-> r.requests]
    ELSE IF r.err # ""
    THEN [user |-> NoUser, ptr |-> FALSE, err |-> r.err,
          dials |-> r.dials, requests |-> r.requests]
    ELSE [user |-> r.body, ptr |-> TRUE, err |-> "",
          dials |-> r.dials, requests |-> r.requests]

\* SetName: the returned *charm.User (ptr: it is not nil) and error, and the
\* network calls made.
SetNameResult(name, outcome) ==
    IF ~ValidateName(name)
    THEN [user |-> NoUser, ptr |-> FALSE, err |-> "ErrNameInvalid",
          dials |-> 0, requests |-> 0]
    ELSE LET r == AuthedJSONRequest([Name |-> name], outcome) IN
         IF r.err # ""
         THEN [user |-> NoUser, ptr |-> FALSE, err |-> r.err,
               dials |-> r.dials, requests |-> r.requests]
         ELSE [user |-> r.body, ptr |-> TRUE, err |-> "",
               dials |-> r.dials, requests |-> r.requests]

NoNameRet == [called |-> FALSE, name |-> <<>>, valid |-> FALSE, ret |-> NoUser,
              ptr |-> FALSE, err |-> "", dials |-> 0, requests |-> 0]

NameIdle == nameRet = NoNameRet

\* The caller holds the name it is about to set.
NameArgs == nameRet \in { [NoNameRet EXCEPT !.name = n] : n \in Names }

SetName(outcome) ==
    /\ cc.ok
    /\ LET name == nameRet.name
           r == SetNameResult(name, outcome) IN
       nameRet' = [called |-> TRUE, name |-> name, valid |-> ValidateName(name),
                   ret |-> r.user, ptr |-> r.ptr, err |-> r.err,
                   dials |-> r.dials, requests |-> r.requests]
    /\ UNCHANGED <<newVars, opVars, account, book, model, msg>>

NameNext == \E outcome \in {"ok", "jwt", "http"} : SetName(outcome)

-----------------------------------------------------------------------------
(* The key operations against a service that keeps the account's key set *)

AccountKeys ==
    { [type |-> "ssh-ed25519", blob |-> "AAAA"],
      [type |-> "ssh-ed25519", blob |-> "BBBB"],
      [type |-> "ssh-rsa", blob |-> "AAAA"] }

KeyOperations ==
    { [name |-> "AuthorizedKeysWithMetadata", aud |-> <<>>, key |-> NoKey,
       text |-> <<>>] }
    \cup { [name |-> "LinkKeyToUser", aud |-> <<>>, key |-> k, text |-> <<>>] :
             k \in AccountKeys }
    \cup { [name |-> "UnlinkAuthorizedKey", aud |-> <<>>, key |-> NoKey,
            text |-> keyText(k)] : k \in AccountKeys }

\* The key text an operation is about.
Subject(o) ==
    IF o.name = "LinkKeyToUser" THEN keyText(o.key) ELSE o.text

\* The service decodes the JSON document that follows the verb of a command.
Unmarshal(json) == [Key |-> SubSeq(json, 2, Len(json) - 1)]
Argument(cmd) == Unmarshal(SubSeq(cmd, 3, Len(cmd)))

\* The keys of the account as the document api-keys writes.
RECURSIVE KeysDocument(_)
KeysDocument(keys) ==
    IF keys = {} THEN <<>>
    ELSE LET k == CHOOSE x \in keys : TRUE IN
         <<[Key |-> k]>> \o KeysDocument(keys \ {k})

\* The service runs a command on the account: it serves it, refuses it with a
\* message on its output, or fails with a non-zero exit status.
Serve(cmd, keys, mood) ==
    CASE mood = "fail" -> [keys |-> keys, out |-> <<>>, exit |-> "1"]
      [] mood = "refuse" /\ cmd[1] # "api-keys" ->
             [keys |-> keys, out |-> <<"refused">>, exit |-> "0"]
      [] mood = "serve" /\ cmd[1] = "api-add-key" ->
             [keys |-> keys \cup {Argument(cmd).Key}, out |-> <<>>, exit |-> "0"]
      [] mood = "serve" /\ cmd[1] = "api-unlink" ->
             [keys |-> keys \ {Argument(cmd).Key}, out |-> <<>>, exit |-> "0"]
      [] OTHER -> [keys |-> keys, out |-> KeysDocument(keys), exit |-> "0"]

NoBook == [last |-> NoOp, ret |-> NoResult, linked |-> {}, unlinked |-> {}]

AccountIdle ==
    /\ account = {}
    /\ book = NoBook

AccountInit ==
    /\ account \in SUBSET { keyText(k) : k \in AccountKeys }
    /\ book = NoBook

\* One whole key operation: the dial, the session, the command and the
\* interpretation of its output.  book.linked holds the key texts whose last
\* successful operation was a link, book.unlinked those that were unlinked
\* after they had been linked.
KeyOp(o, dialOk, mood) ==
    /\ cc.ok
    /\ LET r == IF dialOk THEN Serve(Command(o), account, mood)
                ELSE [keys |-> account, out |-> <<>>, exit |-> ""]
           ret == IF dialOk THEN Result(o, r.out, OutputErr(r), TRUE)
                  ELSE Failure("dial")
           t == Subject(o)
       IN  /\ account' = r.keys
           /\ book' =
                [last |-> o, ret |-> ret,
                 linked |->
                    IF ret.err # "" THEN book.linked
                    ELSE IF o.name = "LinkKeyToUser" THEN book.linked \cup {t}
                    ELSE IF o.name = "UnlinkAuthorizedKey" THEN book.linked \ {t}
                    ELSE book.linked,
                 unlinked |->
                    IF ret.err # "" THEN book.unlinked
                    ELSE IF o.name = "LinkKeyToUser" THEN book.unlinked \ {t}
                    ELSE IF o.name = "UnlinkAuthorizedKey" /\ t \in book.linked
                    THEN book.unlinked \cup {t}
                    ELSE book.unlinked]
    /\ UNCHANGED <<newVars, opVars, nameRet, model, msg>>

AccountNext ==
    \E o \in KeyOperations, dialOk \in BOOLEAN, mood \in {"serve", "refuse", "fail"} :
        KeyOp(o, dialOk, mood)

-----------------------------------------------------------------------------
(* The info UI model *)

\* The frames of the spinner.Dot spinner.
SpinnerFrames == 8

\* A *charm.User as the UI holds it: nil, or a user with a name (maybe unset).
NilUser == [ptr |-> FALSE, Name |-> <<>>]
BioUsers == { NilUser, [ptr |-> TRUE, Name |-> <<>>], [ptr |-> TRUE, Name |-> <<"a">>] }

QuitKeys == {"q", "esc", "ctrl+c"}
Keys == QuitKeys \cup {"a", "enter"}

\* The messages Update is handed; err is the text of a tea.ErrMsg.
NoMsg == [kind |-> "", key |-> "", user |-> NilUser, err |-> ""]
Messages ==
    { [NoMsg EXCEPT !.kind = "key", !.key = k] : k \in Keys }
    \cup { [NoMsg EXCEPT !.kind = "bio", !.user = u] : u \in BioUsers }
    \cup { [NoMsg EXCEPT !.kind = "err", !.err = e] : e \in {"dial", "http"} }
    \cup { [NoMsg EXCEPT !.kind = "tick"] }

\* NewModel: Err is the zero value nil ("").
NewModel == [Quit |-> FALSE, Err |-> "", User |-> NilUser, spinner |-> 0]

\* spinner.Update on a tick: the next frame.
SpinnerUpdate(frame) == (frame + 1) % SpinnerFrames

\* An Update that records the error and keeps running.
Update_ErrKeepsRunning(mg, md) ==
    CASE mg.kind = "key" /\ mg.key \in QuitKeys -> [md EXCEPT !.Quit = TRUE]
      [] mg.kind = "bio" -> [md EXCEPT !.User = mg.user]
      [] mg.kind = "err" -> [md EXCEPT !.Err = mg.err]
      [] mg.kind = "tick" -> [md EXCEPT !.spinner = SpinnerUpdate(@)]
      [] OTHER -> md

\* Update: the model it returns.
Update(mg, md) ==
    CASE mg.kind = "key" /\ mg.key \in QuitKeys -> [md EXCEPT !.Quit = TRUE]
      [] mg.kind = "bio" -> [md EXCEPT !.User = mg.user]
      [] mg.kind = "err" -> [md EXCEPT !.Err = mg.err, !.Quit = TRUE]
      [] mg.kind = "tick" -> [md EXCEPT !.spinner = SpinnerUpdate(@)]
      [] OTHER -> md

InfoIdle ==
    /\ model = NewModel
    /\ msg = NoMsg

\* The runtime hands a message to Update and keeps the model it returns.
Dispatch(mg) ==
    /\ cc.ok
    /\ msg' = mg
    /\ model' = Update(mg, model)
    /\ UNCHANGED <<newVars, opVars, nameRet, account, book>>

InfoNext == \E mg \in Messages : Dispatch(mg)

-----------------------------------------------------------------------------
(* Specifications *)

\* Before the first NewClient call no operation has been called.
InitNew ==
    /\ NewInit
    /\ IdleInit
    /\ NameIdle
    /\ AccountIdle
    /\ InfoIdle

SpecNew == InitNew /\ [][NewNext]_vars

\* A Client that NewClient returned, and nothing called on it yet.
ClientInit ==
    /\ unparseable = {}
    /\ sshAuthSock = <<>>
    /\ cfg = OpsConfig
    /\ \E r \in {AfterNewClient(OpsConfig, {HomeKey}, {}, <<>>, TRUE, TRUE)} :
         /\ fs = r.fs
         /\ cc = r.cc
         /\ err = r.err
         /\ run = r.run
    /\ IdleInit

OpsInit ==
    /\ ClientInit
    /\ NameIdle
    /\ AccountIdle
    /\ InfoIdle

SpecOps == OpsInit /\ [][OpsNext]_vars

NameInit ==
    /\ ClientInit
    /\ NameArgs
    /\ AccountIdle
    /\ InfoIdle

SpecName == NameInit /\ [][NameNext]_vars

InitAccount ==
    /\ ClientInit
    /\ NameIdle
    /\ AccountInit
    /\ InfoIdle

SpecAccount == InitAccount /\ [][AccountNext]_vars

InfoInit ==
    /\ ClientInit
    /\ NameIdle
    /\ AccountIdle
    /\ InfoIdle

SpecInfo == InfoInit /\ [][InfoNext]_vars

-----------------------------------------------------------------------------
(* Properties of NewClient *)

HasSuffix(s, x) == Len(s) >= Len(x) /\ SubSeq(s, Len(s) - Len(x) + 1, Len(s)) = x

\* The private key files the last call wrote.
PrivateKeysWritten == {p \in run.wrote : ~HasSuffix(Base(p), PubSuffix)}

\* The file the naming convention charm_<keyType> names in the data directory.
ConventionalKey == Join(DataPath(cfg, TRUE).path, KeyFileName(cfg.KeyType))

\* The last call found no matching key file, had no IdentityKey and met no
\* failure of the data path lookup or of the write.
GenerateCase ==
    /\ run.done
    /\ cfg.IdentityKey = EmptyPath
    /\ run.first = <<>>
    /\ err \notin {"datapath", "keygen"}

\* C1: with no pre-existing matching key file and no IdentityKey, NewClient
\* writes exactly one private key file, named charm_<keyType>, and a later
\* findAuthKeys(keyType) returns exactly that file, for every key type string.
C1_GeneratedKeyIsFound ==
    GenerateCase =>
        /\ PrivateKeysWritten = {ConventionalKey}
        /\ findAuthKeys(cfg, cfg.KeyType, fs, TRUE).keys = <<ConventionalKey>>

\* C2: when the first discovery is empty the key generator is called once and
\* the discovery is run once more; if that is empty too NewClient returns an
\* error, whatever the rest of the configuration is.
C2_EmptyRerunFails ==
    GenerateCase =>
        /\ run.keygens = 1
        /\ run.globs = 2
        /\ (run.keys = <<>> => err # "" /\ ~cc.ok)

\* C3: an empty method list makes NewClient return ErrMissingSSHAuth and no
\* Client, without any dial of the host; every Client returned has a non-empty
\* Auth list.
C3_MissingAuth ==
    run.done =>
        /\ (run.built /\ run.pkam = <<>>) =>
               (err = "ErrMissingSSHAuth" /\ ~cc.ok /\ run.sshDials = 0)
        /\ cc.ok => (cc.Auth # <<>> /\ err = "")

C3_Witness ==
    run.done /\ run.built /\ run.pkam = <<>> /\ err = "ErrMissingSSHAuth"

Blank(s) == \A i \in 1..Len(s) : IsSpace(s[i])

\* The socket the agent settings name: the override unless it is blank.
ResolvedSocket == IF Blank(cfg.SSHAgentAddr) THEN sshAuthSock ELSE cfg.SSHAgentAddr

NoAgentSocket ==
    \/ Blank(cfg.SSHAgentAddr) /\ sshAuthSock = <<>>
    \/ ResolvedSocket \notin Listening

\* The keys the last call resolved can all be read and parsed.
KeysUsable ==
    /\ run.keys # <<>>
    /\ \A i \in 1..Len(run.keys) :
           Expand(run.keys[i]) \in fs /\ Expand(run.keys[i]) \notin unparseable

\* C4: with UseSSHAgent set and no reachable agent socket NewClient returns an
\* error and no Client, and builds no key method, even when usable on-disk
\* keys exist.
C4_AgentUnreachableFails ==
    (run.done /\ cfg.UseSSHAgent /\ NoAgentSocket) =>
        (err # "" /\ ~cc.ok /\ run.pkam = <<>> /\ ~run.built)

C4_Witness ==
    /\ run.done /\ cfg.UseSSHAgent /\ NoAgentSocket /\ KeysUsable
    /\ err = "failed to connect to SSH_AUTH_SOCK"

\* C5: the Auth list of a returned Client is the agent method first if
\* UseSSHAgent is set, then one public-key method per key path, in the order
\* of the paths.
C5_AuthOrder ==
    cc.ok =>
        cc.Auth = (IF cfg.UseSSHAgent THEN <<AgentMethod(ResolvedSocket)>> ELSE <<>>)
                  \o [i \in 1..Len(run.keys) |-> KeyMethod(run.keys[i])]

C5_Witness ==
    cc.ok /\ cfg.UseSSHAgent /\ Len(run.keys) >= 1 /\ Len(cc.Auth) = 2

\* C6: with IdentityKey set NewClient neither globs nor writes the data
\* directory, and the one on-disk key it uses is the IdentityKey path.
C6_IdentityKeyBypass ==
    [][ cfg'.IdentityKey # EmptyPath =>
          /\ fs' = fs
          /\ run'.globs = 0 /\ run'.keygens = 0 /\ run'.wrote = {}
          /\ run'.keys = <<cfg'.IdentityKey>>
          /\ cc'.ok => SelectSeq(cc'.Auth, LAMBDA m : m.kind = "publickey")
                           = <<KeyMethod(cfg'.IdentityKey)>> ]_newVars

C6_Witness ==
    /\ run.done /\ cc.ok /\ cfg.IdentityKey = IdentityGood
    /\ cfg.DataDir = <<"data">>
    /\ Join(<<"data", Host>>, KeyFileName(cfg.KeyType)) \in fs

-----------------------------------------------------------------------------
(* Properties of the SSH operations *)

\* The caller's last operation has returned after it ran its command.
Ran(p) ==
    /\ pc[p] = "done"
    /\ sess[p] # 0
    /\ sessions[sess[p]].started

\* What the command of the caller's last operation wrote.
Written(p) == sessions[sess[p]].stdout

\* C7 as claimed: whenever api-unlink writes any output, UnlinkAuthorizedKey
\* returns ErrCouldNotUnlinkKey, also when the command exits non-zero.
C7_UnlinkAlwaysDistinguished ==
    \A p \in Callers :
        (Ran(p) /\ op[p].name = "UnlinkAuthorizedKey" /\ Written(p) # <<>>) =>
            res[p].err = "ErrCouldNotUnlinkKey"

\* C7 amended: when api-unlink writes any output and exits with status zero,
\* UnlinkAuthorizedKey returns ErrCouldNotUnlinkKey; when it exits non-zero,
\* UnlinkAuthorizedKey returns the error of s.Output, whatever was written.
C7_UnlinkDistinguishedOnExitZero ==
    \A p \in Callers :
        (Ran(p) /\ op[p].name = "UnlinkAuthorizedKey") =>
            /\ (Written(p) # <<>> /\ sessions[sess[p]].exit = "0") =>
                   res[p] = Failure("ErrCouldNotUnlinkKey")
            /\ sessions[sess[p]].exit = "1" => res[p] = Failure("exit")

C7_Witness ==
    \E p \in Callers :
        /\ Ran(p) /\ op[p].name = "UnlinkAuthorizedKey"
        /\ Written(p) # <<>> /\ sessions[sess[p]].exit = "0"
        /\ res[p].err = "ErrCouldNotUnlinkKey"

\* LinkKeyToUser and UnlinkAuthorizedKey return nil exactly when the session
\* was opened, the command ran and exited with status zero, and wrote nothing.
NilIffEmptyOutput(p) ==
    res[p].err = "" <=>
        /\ sess[p] # 0
        /\ sessions[sess[p]].started
        /\ sessions[sess[p]].exit = "0"
        /\ Written(p) = <<>>

InFlight(p) == pc[p] \in {"stdin", "exec", "wait"}

\* C9: a session is open only while the operation that opened it is running:
\* once the operation has returned, on any path, its session is closed.
C9_SessionClosedOnReturn ==
    /\ \A s \in DOMAIN sessions :
           sessions[s].open => \E p \in Callers : sess[p] = s /\ InFlight(p)
    /\ \A p \in Callers :
           (pc[p] = "done" /\ sess[p] # 0) => ~sessions[sess[p]].open

C9_Witness ==
    \E p, q \in Callers :
        /\ pc[p] = "done" /\ sess[p] # 0 /\ res[p].err = "json"
        /\ pc[q] = "done" /\ sess[q] # 0 /\ res[q].err = "encode"

\* The bytes the command cmd writes on channel s, the first k of them.
OwnOutput(cmd, s, k) == [i \in 1..k |-> Byte(cmd, s, i)]

\* C10: operations running at the same time have connections and sessions of
\* their own, each session's buffer holds bytes of its own command only, in
\* order, and an operation that returns a string returns the whole output of
\* its own command.
C10_IndependentSessions ==
    /\ \A p, q \in Callers :
           (p # q /\ pc[p] \notin {"idle", "done"} /\ pc[q] \notin {"idle", "done"}) =>
               /\ conn[p] # conn[q]
               /\ (sess[p] # 0 /\ sess[q] # 0) => sess[p] # sess[q]
    /\ \A p \in Callers :
           (sess[p] # 0 /\ sessions[sess[p]].started) =>
               /\ sessions[sess[p]].cmd = Command(op[p])
               /\ Len(Written(p)) <= sessions[sess[p]].n
               /\ Written(p) = OwnOutput(Command(op[p]), sess[p], Len(Written(p)))
    /\ \A p \in Callers :
           (Ran(p) /\ res[p].err = "" /\ op[p].name \in {"ID", "JWT", "AuthorizedKeys"}) =>
               res[p].val = OwnOutput(Command(op[p]), sess[p], sessions[sess[p]].n)

C10_Witness ==
    \E p, q \in Callers :
        /\ p # q /\ op[p].name = "ID" /\ op[q].name = "JWT"
        /\ Ran(p) /\ res[p].err = "" /\ Len(res[p].val) = 2
        /\ pc[q] = "wait" /\ Len(Written(q)) = 1 /\ sessions[sess[q]].n = 2
        /\ conn[q] < conn[p]

-----------------------------------------------------------------------------
(* Properties of ValidateName and SetName *)

AsciiLetters == {Lower[i] : i \in 1..Len(Lower)} \cup {Upper[i] : i \in 1..Len(Upper)}
AsciiDigits == {Digits[i] : i \in 1..Len(Digits)}

\* The name is made of ASCII letters and digits only and has 1 to 50 of them.
WellFormedName(name) ==
    /\ Len(name) >= 1
    /\ Len(name) <= 50
    /\ \A i \in 1..Len(name) : name[i] \in AsciiLetters \cup AsciiDigits

\* C11: ValidateName(name) is true exactly when name consists only of ASCII
\* letters and digits and has length 1 to 50; the empty string, a name with
\* whitespace or any other character (a trailing newline included) and a name
\* of 51 or more characters are rejected.
C11_ValidateNameExact ==
    /\ nameRet.called => (nameRet.valid <=> WellFormedName(nameRet.name))
    /\ ~ValidateName(<<>>)
    /\ \A n \in Names :
           (n # <<>> /\ n[Len(n)] = "\n") => ~ValidateName(n)

\* A name of 50 letters and a newline was rejected, one of 50 letters accepted.
C11_Witness ==
    /\ nameRet.called
    /\ Len(nameRet.name) = 51
    /\ nameRet.name[51] = "\n"
    /\ \A i \in 1..50 : nameRet.name[i] \in AsciiLetters
    /\ ~nameRet.valid
    /\ ValidateName(Rep("a", 50))

\* C12: SetName with a name that fails ValidateName returns ErrNameInvalid and
\* no User, and makes no network call: no SSH dial and no HTTP request.
C12_InvalidNameNoNetwork ==
    (nameRet.called /\ ~WellFormedName(nameRet.name)) =>
        /\ nameRet.err = "ErrNameInvalid"
        /\ ~nameRet.ptr
        /\ nameRet.ret = NoUser
        /\ nameRet.dials = 0
        /\ nameRet.requests = 0

\* SetName was called with 51 letters and rejected; a valid name does use the
\* network, so the absence of calls is the rejection's doing.
C12_Witness ==
    /\ nameRet.called
    /\ nameRet.name = Rep("a", 51)
    /\ nameRet.err = "ErrNameInvalid"
    /\ nameRet.dials = 0
    /\ SetNameResult(Rep("a", 50), "ok").requests = 1

-----------------------------------------------------------------------------
(* Properties of the operations: failures, retries, payloads, connections *)

\* C14: an operation that returns a non-nil error returns the empty value with
\* it: the empty string for ID, JWT and AuthorizedKeys, a nil pointer for
\* AuthorizedKeysWithMetadata, also when the api-keys output is not valid JSON.
C14_ErrorMeansNoValue ==
    \A p \in Callers :
        (pc[p] = "done" /\ res[p].err # "") =>
            /\ res[p].val = <<>>
            /\ ~res[p].ptr

\* The step an error value names.
FailedAt(e) ==
    CASE e = "dial" -> "dial"
      [] e = "session" -> "session"
      [] e \in {"stdinpipe", "encode"} -> "stdin"
      [] e \in {"start", "exit"} -> "exec"
      [] OTHER -> "parse"

\* C15: one invocation of an operation dials at most once, opens at most one
\* session and issues at most one command; after the first failure it makes no
\* further dial or command and returns that failure: a failed dial is followed
\* by no session and no command, a failed session open or stdin by no command,
\* and an operation that returned an error stays returned.
C15_NoRetry ==
    \A p \in Callers :
        /\ tries[p].dial <= 1
        /\ tries[p].open <= 1
        /\ tries[p].exec <= 1
        /\ tries[p].open <= tries[p].dial
        /\ tries[p].exec <= tries[p].open
        /\ res[p].err # "" =>
              /\ pc[p] = "done"
              /\ FailedAt(res[p].err) = "dial" =>
                     tries[p] = [dial |-> 1, open |-> 0, exec |-> 0]
              /\ FailedAt(res[p].err) \in {"session", "stdin"} =>
                     tries[p] = [dial |-> 1, open |-> 1, exec |-> 0]
              /\ FailedAt(res[p].err) \in {"exec", "parse"} =>
                     tries[p] = [dial |-> 1, open |-> 1, exec |-> 1]
        /\ (pc[p] = "done" /\ res[p].err = "") =>
              tries[p] = [dial |-> 1, open |-> 1, exec |-> 1]

\* Both callers returned a failure, one of the session open and one of the
\* command, each after a single attempt.
C15_Witness ==
    \E p, q \in Callers :
        /\ pc[p] = "done" /\ res[p].err = "session" /\ tries[p].open = 1
        /\ pc[q] = "done" /\ res[q].err = "exit" /\ tries[q].exec = 1

\* The JSON document carried inline in a command, after the verb and the space.
Inline(cmd) == SubSeq(cmd, 3, Len(cmd))

\* The session of p has been asked to run the command of a link or unlink.
Requested(p) ==
    /\ sess[p] # 0
    /\ sessions[sess[p]].started
    /\ op[p].name \in {"LinkKeyToUser", "UnlinkAuthorizedKey"}

\* C16: in LinkKeyToUser and UnlinkAuthorizedKey the JSON encoding of the
\* PublicKey record is on the session's input before the command is requested
\* (it is there when the request is made and does not change afterwards), and
\* the JSON inline in the command decodes to the same record as the document
\* written to the input, the record of the key text the operation is about.
C16_PayloadBeforeCommand ==
    /\ [](\A p \in Callers :
            Requested(p) =>
                LET s == sessions[sess[p]]
                    doc == SubSeq(s.stdin, 1, Len(s.stdin) - 1) IN
                /\ s.stdin # <<>>
                /\ s.stdin[Len(s.stdin)] = "\n"
                /\ s.cmd[1] \in {"api-add-key", "api-unlink"}
                /\ Unmarshal(Inline(s.cmd)) = Unmarshal(doc)
                /\ Unmarshal(doc).Key = Subject(op[p]))
    /\ [][\A p \in Callers :
            (pc[p] = "exec" /\ pc'[p] = "wait" /\ UsesStdin(op[p])) =>
                /\ sessions[sess[p]].stdin # <<>>
                /\ sessions'[sess[p]].stdin = sessions[sess[p]].stdin]_vars

\* A link and an unlink have both had their command requested.
C16_Witness ==
    \E p, q \in Callers :
        /\ Requested(p) /\ op[p].name = "LinkKeyToUser"
        /\ Requested(q) /\ op[q].name = "UnlinkAuthorizedKey" /\ pc[q] = "wait"

\* C17: every connection sshSession dialed is closed by the time the operation
\* that asked for it has returned, whether it succeeded or failed.
C17_ConnectionClosedOnReturn ==
    \A p \in Callers :
        (pc[p] = "done" /\ conn[p] # 0) => conn[p] \notin conns

-----------------------------------------------------------------------------
(* Properties of NewClient: what a call leaves behind *)

\* C18: the agent connection NewClient opened never outlives its owner: when
\* NewClient returns an error the connection is not open; the connection of a
\* Client is open exactly until Close, and Close returns nil on a Client for
\* which no agent connection was opened.
C18_AgentConnOwned ==
    /\ (run.done /\ err # "") => run.agentConn # "open"
    /\ (cc.ok /\ run.closeRet = "none") => (run.agentConn = "open" <=> cc.closer)
    /\ (cc.ok /\ run.closeRet # "none") =>
           /\ run.agentConn # "open"
           /\ ~cc.closer => run.closeRet = "nil"

\* C19: a NewClient call that returns an error has written no file: no key is
\* generated in a call that then fails, also when the agent is asked for and
\* cannot be reached while no matching key file exists.
C19_FailedCallWritesNothing ==
    (run.done /\ err # "") => run.wrote = {}

-----------------------------------------------------------------------------
(* Properties of the key operations against the account's key set *)

\* The key texts a listing returned.
Listed(ret) == { ret.val[i].Key : i \in 1..Len(ret.val) }

\* The last operation was a listing that succeeded.
ListedNow ==
    /\ book.last.name = "AuthorizedKeysWithMetadata"
    /\ book.ret.err = ""

\* C13: against a service that keeps the account's key set, a successful
\* listing includes every key whose last successful operation was
\* LinkKeyToUser and no key that was unlinked by a successful
\* UnlinkAuthorizedKey of the same key text after it had been linked; after a
\* successful link the key text type, space, base64 is on the account.
C13_LinkUnlinkInverse ==
    /\ ListedNow =>
          /\ book.ret.ptr
          /\ book.linked \subseteq Listed(book.ret)
          /\ book.unlinked \cap Listed(book.ret) = {}
    /\ (book.last.name = "LinkKeyToUser" /\ book.ret.err = "") =>
          <<book.last.key.type, " ", "base64", book.last.key.blob>> \in account
    /\ (book.last.name = "UnlinkAuthorizedKey" /\ book.ret.err = "") =>
          book.last.text \notin account

\* A listing after one key was linked and then unlinked while another key is
\* linked: the second is listed, the first is not.
C13_Witness ==
    /\ ListedNow
    /\ book.unlinked # {}
    /\ book.linked # {}
    /\ Len(book.ret.val) = 1

-----------------------------------------------------------------------------
(* Properties of the info UI model *)

\* C20: in every state reachable from NewModel by Update messages, Err # nil
\* implies Quit; once Quit is true no later message makes it false; and a q,
\* esc or ctrl+c key press sets Quit and changes neither Err nor User.
C20_QuitAndErr ==
    /\ [](model.Err # "" => model.Quit)
    /\ [][model.Quit => model'.Quit]_vars
    /\ [][(msg'.kind = "key" /\ msg'.key \in {"q", "esc", "ctrl+c"}) =>
            /\ model'.Quit
            /\ model'.Err = model.Err
            /\ model'.User = model.User]_vars

\* After an error, a bio, ticks and a quit key were handled, a key that does
\* not quit is handled: Quit is still set, the user and the error are kept.
C20_Witness ==
    /\ msg.kind = "key"
    /\ msg.key = "enter"
    /\ model.Quit
    /\ model.Err = "http"
    /\ model.User.ptr
    /\ model.spinner = 3

====
